---------------------------- MODULE Spec2Model ----------------------------
(*
  Model of eeschema/dialogs/dialog_netlist.cpp: the netlist dialog
  (NETLIST_DIALOG), its notebook pages (NETLIST_PAGE_DIALOG), the persisted
  plugin configuration (m_config) and InvokeDialogNetList.

  A notebook is a sequence of page records, in AddPage order.  A pointer to a
  page is its position in that sequence; NULL is 0.  m_PanelNetType maps the
  panel indexes 0..11 to page pointers.
*)
EXTENDS Integers, Sequences, FiniteSets, TLC

(* ------------------------------------------------------------------ *)
(* Program constants                                                    *)
(* ------------------------------------------------------------------ *)

CUSTOMPANEL_COUNTMAX == 8

PANELPCBNEW == 0
PANELORCADPCB2 == 1
PANELCADSTAR == 2
PANELSPICE == 3
PANELCUSTOMBASE == 4

\* NETLIST_TYPE_ID (netlist.h): the dialog relies only on the ids being
\* distinct and on the custom ids being NET_TYPE_CUSTOM1 and greater
NET_TYPE_UNINIT == 0
NET_TYPE_PCBNEW == 1
NET_TYPE_ORCADPCB2 == 2
NET_TYPE_CADSTAR == 3
NET_TYPE_SPICE == 4
NET_TYPE_CUSTOM1 == 5

CUSTOM_NETLIST_TITLE == "CustomNetlistTitle"
CUSTOM_NETLIST_COMMAND == "CustomNetlistCommand"

wxEmptyString == ""

\* a wxTextCtrl* that is NULL (the fixed pages have no title control)
NULLCTRL == "<NULL>"

\* a page pointer that is NULL
NULL == 0

(* ------------------------------------------------------------------ *)
(* Bounds of the model                                                  *)
(* ------------------------------------------------------------------ *)

\* how many times InvokeDialogNetList is run (the caller re-opens the dialog
\* after NET_PLUGIN_CHANGE)
MaxDialogs == 2

\* how many handlers the user triggers in all (page changes, clicks, edits,
\* add, delete and generate; closing a dialog is not counted)
MaxSteps == 3

\* the format names the project may hold when the dialog opens
StoredFmtNames == {"", "Pcbnew", "Spice", "P1", "Unknown"}

\* what the user types in the add-generator dialog
AddTitles == {"P1", "Pcbnew"}
AddCommands == {"cmd"}

\* what the user types in a custom page's title and command fields
EditTitles == {"", "P2"}
EditCommands == {""}

\* what the user picks in the save-file dialog
Paths == {"a.net", "b.net"}

PanelIndexes == 0 .. (PANELCUSTOMBASE + CUSTOMPANEL_COUNTMAX - 1)

ConfigKeys == {CUSTOM_NETLIST_TITLE, CUSTOM_NETLIST_COMMAND} \X (1 .. CUSTOMPANEL_COUNTMAX)

VARIABLES
    config,                 \* m_config: key -> string (the persisted plugin setup)
    parentFmt,              \* SCH_EDIT_FRAME's netlist format name
    pc,                     \* "idle" | "modal" | "ended" (position in InvokeDialogNetList)
    m_DefaultNetFmtName,
    m_asFormatSelected,
    m_NoteBook,             \* the notebook's pages
    selection,              \* the notebook's current page (a page pointer)
    m_PanelNetType,
    delEnabled,             \* m_buttonDelGenerator is enabled
    curr_default_netformat, \* local of InvokeDialogNetList
    ret,                    \* the value given to EndModal
    saved,                  \* SaveProjectSettings was called by the last InvokeDialogNetList
    userChanged,            \* SelectDefaultNetlistType has set the default in this dialog
    dialogs,                \* number of dialogs opened
    steps,                  \* number of handlers the user has triggered
    lastCall,               \* the handler that ran last, with its inputs
    trace,                  \* the calls the last handler made, in order
    fp                      \* a call of FilenamePrms: its arguments, the caller's strings, its result

vars == <<config, parentFmt, pc, m_DefaultNetFmtName, m_asFormatSelected,
          m_NoteBook, selection, m_PanelNetType, delEnabled,
          curr_default_netformat, ret, saved, userChanged, dialogs, steps,
          lastCall, trace, fp>>

Call(op, title, cmd, flag, page) ==
    [op |-> op, title |-> title, cmd |-> cmd, flag |-> flag, page |-> page]

Ev(call, type, arg) == [call |-> call, type |-> type, arg |-> arg]

(* ------------------------------------------------------------------ *)
(* m_config                                                             *)
(* ------------------------------------------------------------------ *)

\* msg = keyword; msg << n
Key(keyword, n) == <<keyword, n>>

ConfigRead(cfg, key) == IF key \in DOMAIN cfg THEN cfg[key] ELSE wxEmptyString

ConfigWrite(cfg, key, value) == [k \in DOMAIN cfg \cup {key} |->
                                    IF k = key THEN value ELSE cfg[k]]

EmptyConfig == [k \in ConfigKeys |-> wxEmptyString]

\* the configuration holding the plugins P1..Pk
StoredConfig(k) == [key \in ConfigKeys |->
                      IF key[2] > k THEN wxEmptyString
                      ELSE IF key[1] = CUSTOM_NETLIST_TITLE
                           THEN <<"P1", "P2", "P3", "P4", "P5", "P6", "P7", "P8">>[key[2]]
                           ELSE "cmd"]


(* ------------------------------------------------------------------ *)
(* The dialog object.  The sequential code of a constructor or handler  *)
(* is written over a record d of the dialog's fields:                   *)
(*   nb (m_NoteBook's pages), sel (the notebook's current page),        *)
(*   panel (m_PanelNetType), asSel (m_asFormatSelected),                *)
(*   defName (m_DefaultNetFmtName), delEn (m_buttonDelGenerator)        *)
(* ------------------------------------------------------------------ *)

\* m_NoteBook->GetCurrentPage()
GetCurrentPage(d) == d.sel

\* OnNetlistTypeSelection: enable the delete button on custom pages only
OnNetlistTypeSelection(d) ==
    LET currPage == GetCurrentPage(d)
    IN  IF currPage = NULL
        THEN d
        ELSE [d EXCEPT !.delEn = (d.nb[currPage].m_IdNetType >= NET_TYPE_CUSTOM1)]

\* wxNotebook::AddPage( page, title, select ): the page is appended; it becomes
\* the current page when select is true or the notebook was empty, and the
\* page-changed event then runs OnNetlistTypeSelection
AddPage(d, page, select) ==
    LET nb2 == Append(d.nb, page)
    IN  IF select \/ Len(d.nb) = 0
        THEN OnNetlistTypeSelection([d EXCEPT !.nb = nb2, !.sel = Len(nb2)])
        ELSE [d EXCEPT !.nb = nb2]

\* NETLIST_PAGE_DIALOG::NETLIST_PAGE_DIALOG: the new page is the last of d.nb
NETLIST_PAGE_DIALOG(d, title, id_NetType) ==
    LET netfmtName == d.defName
        selected == (title = netfmtName)
        page == [m_IdNetType         |-> id_NetType,
                 m_pageNetFmtName    |-> title,
                 m_IsCurrentFormat   |-> selected,
                 m_TitleStringCtrl   |-> NULLCTRL,
                 m_CommandStringCtrl |-> NULLCTRL]
        d2 == AddPage(d, page, selected)
    IN  [d2 EXCEPT !.asSel = IF selected THEN TRUE ELSE d.asSel]

\* a fixed page, stored at m_PanelNetType[panelIndex]
FixedPage(d, panelIndex, title, id_NetType) ==
    LET d2 == NETLIST_PAGE_DIALOG(d, title, id_NetType)
    IN  [d2 EXCEPT !.panel[panelIndex] = Len(d2.nb)]

\* m_Parent->GetSimulatorCommand()
SimulatorCommand == "sim"

InstallPageSpice(d) ==
    LET d2 == FixedPage(d, PANELSPICE, "Spice", NET_TYPE_SPICE)
    IN  [d2 EXCEPT !.nb[Len(d2.nb)].m_CommandStringCtrl = SimulatorCommand]

\* AddOneCustomPage: the new page is the last of the result's nb
AddOneCustomPage(d, aTitle, aCommandString, aNetTypeId) ==
    LET d2 == NETLIST_PAGE_DIALOG(d, aTitle, aNetTypeId)
    IN  [d2 EXCEPT !.nb[Len(d2.nb)].m_CommandStringCtrl = aCommandString,
                   !.nb[Len(d2.nb)].m_TitleStringCtrl = aTitle]

\* UserNetlistTypeName: index is the function's static int; the result is the
\* name read and the new value of index
UserNetlistTypeName(cfg, first_item, index) ==
    LET index2 == IF first_item THEN 0 ELSE index + 1
    IN  [name |-> ConfigRead(cfg, Key(CUSTOM_NETLIST_TITLE, index2 + 1)),
         index |-> index2]

\* the loop of InstallCustomPages from ii on
RECURSIVE InstallCustomPagesFrom(_, _, _, _)
InstallCustomPagesFrom(d, cfg, ii, index) ==
    IF ii >= CUSTOMPANEL_COUNTMAX
    THEN d
    ELSE LET r == UserNetlistTypeName(cfg, ii = 0, index)
             title == r.name
         IN  IF title = wxEmptyString
             THEN d
             ELSE LET command == ConfigRead(cfg, Key(CUSTOM_NETLIST_COMMAND, ii + 1))
                      d2 == AddOneCustomPage(d, title, command, NET_TYPE_CUSTOM1 + ii)
                      d3 == [d2 EXCEPT !.panel[PANELCUSTOMBASE + ii] = Len(d2.nb)]
                  IN  InstallCustomPagesFrom(d3, cfg, ii + 1, r.index)

InstallCustomPages(d, cfg) == InstallCustomPagesFrom(d, cfg, 0, 0)

\* EnsureFormatSelected leaving m_DefaultNetFmtName as it was
EnsureFormatSelected_NameNotSet(d) ==
    IF ~d.asSel
    THEN LET p == d.panel[PANELPCBNEW]
             d2 == [d EXCEPT !.nb[p].m_IsCurrentFormat = TRUE,
                             !.sel = PANELPCBNEW + 1]
         IN  OnNetlistTypeSelection(d2)
    ELSE d

\* lines 343-353 of the constructor: ensure a netlist format is selected
EnsureFormatSelected(d) ==
    IF ~d.asSel
    THEN LET p == d.panel[PANELPCBNEW]
             d2 == [d EXCEPT !.nb[p].m_IsCurrentFormat = TRUE,
                             !.sel = PANELPCBNEW + 1,
                             !.defName = d.nb[p].m_pageNetFmtName]
         IN  OnNetlistTypeSelection(d2)
    ELSE d

\* NETLIST_DIALOG::NETLIST_DIALOG
NETLIST_DIALOG(parentName, cfg) ==
    LET d0 == [nb      |-> <<>>,
               sel     |-> NULL,
               panel   |-> [ii \in PanelIndexes |-> NULL],
               asSel   |-> FALSE,
               defName |-> parentName,
               delEn   |-> FALSE]
        d1 == FixedPage(d0, PANELPCBNEW, "Pcbnew", NET_TYPE_PCBNEW)
        d2 == FixedPage(d1, PANELORCADPCB2, "OrcadPCB2", NET_TYPE_ORCADPCB2)
        d3 == FixedPage(d2, PANELCADSTAR, "CadStar", NET_TYPE_CADSTAR)
        d4 == InstallPageSpice(d3)
        d5 == InstallCustomPages(d4, cfg)
    IN  EnsureFormatSelected(d5)


(* ------------------------------------------------------------------ *)
(* Handlers, as code over the dialog record                             *)
(* ------------------------------------------------------------------ *)

\* SelectDefaultNetlistType without the loop that clears the checkboxes
SelectDefaultNetlistTypeCode_NoClear(d, currPage, parentName) ==
    IF currPage = NULL
    THEN [d |-> d, parent |-> parentName]
    ELSE LET name == d.nb[currPage].m_pageNetFmtName
         IN  [d |-> [d EXCEPT !.defName = name,
                              !.nb[currPage].m_IsCurrentFormat = TRUE],
              parent |-> name]

\* SelectDefaultNetlistType, with currPage the result of GetCurrentPage();
\* the result is the dialog and the parent's netlist format name
SelectDefaultNetlistTypeCode(d, currPage, parentName) ==
    LET held == {d.panel[ii] : ii \in PanelIndexes} \ {NULL}
        cleared == [d EXCEPT !.nb = [p \in 1 .. Len(d.nb) |->
                        IF p \in held
                        THEN [d.nb[p] EXCEPT !.m_IsCurrentFormat = FALSE]
                        ELSE d.nb[p]]]
    IN  IF currPage = NULL
        THEN [d |-> cleared, parent |-> parentName]
        ELSE LET name == cleared.nb[currPage].m_pageNetFmtName
             IN  [d |-> [cleared EXCEPT !.defName = name,
                                        !.nb[currPage].m_IsCurrentFormat = TRUE],
                  parent |-> name]

\* the loop of NetlistUpdateOpt from ii on; name is the parent's format name so far
RECURSIVE NetlistUpdateOptFrom(_, _, _)
NetlistUpdateOptFrom(d, ii, name) ==
    IF ii >= PANELCUSTOMBASE + CUSTOMPANEL_COUNTMAX
    THEN name
    ELSE IF d.panel[ii] = NULL
         THEN name
         ELSE IF d.nb[d.panel[ii]].m_IsCurrentFormat
              THEN NetlistUpdateOptFrom(d, ii + 1, d.nb[d.panel[ii]].m_pageNetFmtName)
              ELSE NetlistUpdateOptFrom(d, ii + 1, name)

\* NetlistUpdateOpt: the parent's netlist format name it leaves
NetlistUpdateOpt(d) == NetlistUpdateOptFrom(d, 0, wxEmptyString)

\* first loop of WriteCurrentNetlistSetup (update existing custom pages) from
\* ii on; the result is the configuration and jj
RECURSIVE WriteExistingPages(_, _, _, _)
WriteExistingPages(d, cfg, ii, jj) ==
    IF ii >= CUSTOMPANEL_COUNTMAX
    THEN [cfg |-> cfg, jj |-> jj]
    ELSE LET currPage == d.panel[ii + PANELCUSTOMBASE]
         IN  IF currPage = NULL
             THEN [cfg |-> cfg, jj |-> jj]
             ELSE LET title == d.nb[currPage].m_TitleStringCtrl
                  IN  IF title = wxEmptyString
                      THEN WriteExistingPages(d, cfg, ii + 1, jj)
                      ELSE LET c1 == ConfigWrite(cfg, Key(CUSTOM_NETLIST_TITLE, jj + 1), title)
                               Command == d.nb[currPage].m_CommandStringCtrl
                               c2 == ConfigWrite(c1, Key(CUSTOM_NETLIST_COMMAND, jj + 1), Command)
                           IN  WriteExistingPages(d, c2, ii + 1, jj + 1)

\* second loop of WriteCurrentNetlistSetup (ensure all other pages are void)
RECURSIVE WriteVoidPages(_, _)
WriteVoidPages(cfg, jj) ==
    IF jj >= CUSTOMPANEL_COUNTMAX
    THEN cfg
    ELSE LET c1 == ConfigWrite(cfg, Key(CUSTOM_NETLIST_TITLE, jj + 1), wxEmptyString)
             c2 == ConfigWrite(c1, Key(CUSTOM_NETLIST_COMMAND, jj + 1), wxEmptyString)
         IN  WriteVoidPages(c2, jj + 1)

\* WriteCurrentNetlistSetup without its second loop
WriteCurrentNetlistSetup_NoVoid(d, cfg) == WriteExistingPages(d, cfg, 0, 0).cfg

\* WriteCurrentNetlistSetup: the configuration it leaves (the parent's format
\* name it leaves is NetlistUpdateOpt(d))
WriteCurrentNetlistSetup(d, cfg) ==
    LET r == WriteExistingPages(d, cfg, 0, 0)
    IN  WriteVoidPages(r.cfg, r.jj)

\* the loop of OnAddGenerator comparing the title with the pages' title fields
RECURSIVE VerifyNotExists_TitleField(_, _, _, _)
VerifyNotExists_TitleField(d, title, ii, netTypeId) ==
    IF ii >= CUSTOMPANEL_COUNTMAX
    THEN [abort |-> FALSE, netTypeId |-> netTypeId]
    ELSE LET id == PANELCUSTOMBASE + ii
             currPage == d.panel[ii + PANELCUSTOMBASE]
         IN  IF currPage = NULL
             THEN [abort |-> FALSE, netTypeId |-> id]
             ELSE IF d.nb[currPage].m_TitleStringCtrl = title
                  THEN [abort |-> TRUE, netTypeId |-> id]
                  ELSE VerifyNotExists_TitleField(d, title, ii + 1, id)

\* the loop of OnAddGenerator from ii on: "abort" when the title is the name
\* of a custom page, else the type id for the new page
RECURSIVE VerifyNotExists(_, _, _, _)
VerifyNotExists(d, title, ii, netTypeId) ==
    IF ii >= CUSTOMPANEL_COUNTMAX
    THEN [abort |-> FALSE, netTypeId |-> netTypeId]
    ELSE LET id == PANELCUSTOMBASE + ii
             currPage == d.panel[ii + PANELCUSTOMBASE]
         IN  IF currPage = NULL
             THEN [abort |-> FALSE, netTypeId |-> id]
             ELSE IF d.nb[currPage].m_pageNetFmtName = title
                  THEN [abort |-> TRUE, netTypeId |-> id]
                  ELSE VerifyNotExists(d, title, ii + 1, id)

\* OnAddGenerator after the add-generator dialog returned wxID_OK and the title
\* was found new: the dialog it leaves
AddGeneratorPage(d, title, cmd, netTypeId) ==
    LET d2 == AddOneCustomPage(d, title, cmd, netTypeId)
    IN  [d2 EXCEPT !.panel[netTypeId] = Len(d2.nb)]

\* OnDelGenerator before WriteCurrentNetlistSetup: the dialog it leaves
DelGeneratorPage(d) ==
    LET currPage == GetCurrentPage(d)
        d2 == [d EXCEPT !.nb[currPage].m_CommandStringCtrl = wxEmptyString,
                        !.nb[currPage].m_TitleStringCtrl = wxEmptyString]
    IN  IF d2.nb[currPage].m_IsCurrentFormat
        THEN [d2 EXCEPT !.nb[currPage].m_IsCurrentFormat = FALSE,
                        !.nb[d.panel[PANELPCBNEW]].m_IsCurrentFormat = TRUE]
        ELSE d2

\* GenNetlist returning after the message box when no netlist is available
GenNetlistCalls_ReturnsEarly(d, fullpath, netlistAvailable) ==
    LET currPage == d.nb[GetCurrentPage(d)]
        cmd == IF currPage.m_CommandStringCtrl # NULLCTRL
               THEN currPage.m_CommandStringCtrl
               ELSE wxEmptyString
    IN  <<Ev("ClearMsgPanel", NET_TYPE_UNINIT, ""),
          Ev("SetNetListerCommand", NET_TYPE_UNINIT, cmd),
          Ev("CreateNetlist", NET_TYPE_UNINIT, "")>>
        \o (IF ~netlistAvailable
            THEN <<Ev("wxMessageBox", NET_TYPE_UNINIT, "Schematic netlist not available")>>
            ELSE <<Ev("WriteNetListFile", currPage.m_IdNetType, fullpath),
                   Ev("WriteCurrentNetlistSetup", NET_TYPE_UNINIT, ""),
                   Ev("EndModal", NET_TYPE_UNINIT, "wxID_OK")>>)

\* the calls GenNetlist makes once the file dialog is accepted, in order
GenNetlistCalls(d, fullpath, netlistAvailable) ==
    LET currPage == d.nb[GetCurrentPage(d)]
        cmd == IF currPage.m_CommandStringCtrl # NULLCTRL
               THEN currPage.m_CommandStringCtrl
               ELSE wxEmptyString
    IN  <<Ev("ClearMsgPanel", NET_TYPE_UNINIT, ""),
          Ev("SetNetListerCommand", NET_TYPE_UNINIT, cmd),
          Ev("CreateNetlist", NET_TYPE_UNINIT, "")>>
        \o (IF ~netlistAvailable
            THEN <<Ev("wxMessageBox", NET_TYPE_UNINIT, "Schematic netlist not available")>>
            ELSE <<Ev("WriteNetListFile", currPage.m_IdNetType, fullpath)>>)
        \o <<Ev("WriteCurrentNetlistSetup", NET_TYPE_UNINIT, ""),
             Ev("EndModal", NET_TYPE_UNINIT, "wxID_OK")>>


\* FilenamePrms whose default branch does not clear ret
FilenamePrms_CustomKnown(aNetTypeId, aExt, aWildCard, ext, wildcard) ==
    LET r == CASE aNetTypeId = NET_TYPE_SPICE ->
                    [fileExt |-> "cir", fileWildcard |-> "SpiceNetlistFileWildcard"]
               [] aNetTypeId = NET_TYPE_CADSTAR ->
                    [fileExt |-> "frp", fileWildcard |-> "CadstarNetlistFileWildcard"]
               [] aNetTypeId \in {NET_TYPE_PCBNEW, NET_TYPE_ORCADPCB2} ->
                    [fileExt |-> "NetlistFileExtension", fileWildcard |-> "NetlistFileWildcard"]
               [] OTHER ->
                    [fileExt |-> wxEmptyString, fileWildcard |-> "AllFilesWildcard"]
    IN  [ret      |-> TRUE,
         ext      |-> IF aExt THEN r.fileExt ELSE ext,
         wildcard |-> IF aWildCard THEN r.fileWildcard ELSE wildcard]

\* FilenamePrms: aExt and aWildCard say whether the pointers are non-null;
\* ext and wildcard are the strings they point to.  The result is the return
\* value and the two strings after the call.
FilenamePrms(aNetTypeId, aExt, aWildCard, ext, wildcard) ==
    LET r == CASE aNetTypeId = NET_TYPE_SPICE ->
                    [fileExt |-> "cir", fileWildcard |-> "SpiceNetlistFileWildcard", ret |-> TRUE]
               [] aNetTypeId = NET_TYPE_CADSTAR ->
                    [fileExt |-> "frp", fileWildcard |-> "CadstarNetlistFileWildcard", ret |-> TRUE]
               [] aNetTypeId \in {NET_TYPE_PCBNEW, NET_TYPE_ORCADPCB2} ->
                    [fileExt |-> "NetlistFileExtension", fileWildcard |-> "NetlistFileWildcard",
                     ret |-> TRUE]
               [] OTHER ->
                    [fileExt |-> wxEmptyString, fileWildcard |-> "AllFilesWildcard", ret |-> FALSE]
    IN  [ret      |-> r.ret,
         ext      |-> IF aExt THEN r.fileExt ELSE ext,
         wildcard |-> IF aWildCard THEN r.fileWildcard ELSE wildcard]

(* ------------------------------------------------------------------ *)
(* The state machine                                                    *)
(* ------------------------------------------------------------------ *)

\* the dialog's fields as a record
Dlg == [nb      |-> m_NoteBook,
        sel     |-> selection,
        panel   |-> m_PanelNetType,
        asSel   |-> m_asFormatSelected,
        defName |-> m_DefaultNetFmtName,
        delEn   |-> delEnabled]

SetDlg(d) ==
    /\ m_NoteBook' = d.nb
    /\ selection' = d.sel
    /\ m_PanelNetType' = d.panel
    /\ m_asFormatSelected' = d.asSel
    /\ m_DefaultNetFmtName' = d.defName
    /\ delEnabled' = d.delEn

dlgVars == <<m_NoteBook, selection, m_PanelNetType, m_asFormatSelected,
             m_DefaultNetFmtName, delEnabled>>

\* no call of FilenamePrms is under way
NoFilenamePrms == [called |-> FALSE, aNetTypeId |-> NET_TYPE_UNINIT,
                   aExt |-> FALSE, aWildCard |-> FALSE,
                   ext |-> "", wildcard |-> "", extBefore |-> "",
                   wildcardBefore |-> "", ret |-> FALSE]

NoCall == Call("none", "", "", FALSE, NULL)

\* before the first InvokeDialogNetList: some plugins are persisted, the
\* project holds some format name, and no dialog exists
Init ==
    /\ \E k \in 0 .. CUSTOMPANEL_COUNTMAX : config = StoredConfig(k)
    /\ parentFmt \in StoredFmtNames
    /\ pc = "idle"
    /\ m_DefaultNetFmtName = wxEmptyString
    /\ m_asFormatSelected = FALSE
    /\ m_NoteBook = <<>>
    /\ selection = NULL
    /\ m_PanelNetType = [ii \in PanelIndexes |-> NULL]
    /\ delEnabled = FALSE
    /\ curr_default_netformat = wxEmptyString
    /\ ret = ""
    /\ saved = FALSE
    /\ userChanged = FALSE
    /\ dialogs = 0
    /\ steps = 0
    /\ lastCall = NoCall
    /\ trace = <<>>
    /\ fp = NoFilenamePrms

\* InvokeDialogNetList up to dlg.ShowModal(): the dialog is constructed and
\* the caller's format name is kept
InvokeDialogNetList ==
    /\ pc = "idle"
    /\ dialogs < MaxDialogs
    /\ SetDlg(NETLIST_DIALOG(parentFmt, config))
    /\ curr_default_netformat' = parentFmt
    /\ pc' = "modal"
    /\ ret' = ""
    /\ saved' = FALSE
    /\ userChanged' = FALSE
    /\ dialogs' = dialogs + 1
    /\ lastCall' = Call("InvokeDialogNetList", parentFmt, "", FALSE, NULL)
    /\ trace' = <<>>
    /\ UNCHANGED <<config, parentFmt, steps, fp>>

\* no dialog exists
NoDialog == [nb      |-> <<>>,
             sel     |-> NULL,
             panel   |-> [ii \in PanelIndexes |-> NULL],
             asSel   |-> FALSE,
             defName |-> wxEmptyString,
             delEn   |-> FALSE]

\* InvokeDialogNetList after dlg.ShowModal() returned; dlg is destroyed on return
InvokeDialogNetListReturn ==
    /\ pc = "ended"
    /\ SetDlg(NoDialog)
    /\ parentFmt' = m_DefaultNetFmtName
    /\ saved' = (curr_default_netformat # m_DefaultNetFmtName)
    /\ pc' = "idle"
    /\ lastCall' = Call("InvokeDialogNetListReturn", "", "", FALSE, NULL)
    /\ trace' = IF curr_default_netformat # m_DefaultNetFmtName
                THEN <<Ev("SaveProjectSettings", NET_TYPE_UNINIT, "")>>
                ELSE <<>>
    /\ UNCHANGED <<config, curr_default_netformat, ret, userChanged,
                   dialogs, steps, fp>>

\* the user closes the dialog (the base dialog's cancel button)
CloseDialog ==
    /\ pc = "modal"
    /\ pc' = "ended"
    /\ ret' = "wxID_CANCEL"
    /\ lastCall' = Call("CloseDialog", "", "", FALSE, NULL)
    /\ trace' = <<Ev("EndModal", NET_TYPE_UNINIT, "wxID_CANCEL")>>
    /\ UNCHANGED <<config, parentFmt, dlgVars, curr_default_netformat, saved,
                   userChanged, dialogs, steps, fp>>

\* the user selects another notebook page
OnPageChanged(p) ==
    /\ pc = "modal"
    /\ steps < MaxSteps
    /\ p # selection
    /\ steps' = steps + 1
    /\ SetDlg(OnNetlistTypeSelection([Dlg EXCEPT !.sel = p]))
    /\ lastCall' = Call("OnNetlistTypeSelection", "", "", FALSE, p)
    /\ trace' = <<>>
    /\ UNCHANGED <<config, parentFmt, pc, curr_default_netformat, ret, saved,
                   userChanged, dialogs, fp>>

\* the user clicks the current page's "Default format" checkbox: the checkbox
\* toggles, then SelectDefaultNetlistType runs; currPage is what
\* GetCurrentPage() returns to it
SelectDefaultNetlistTypeWith(currPage) ==
    /\ pc = "modal"
    /\ steps < MaxSteps
    /\ selection # NULL
    /\ steps' = steps + 1
    /\ LET wasChecked == m_NoteBook[selection].m_IsCurrentFormat
           clicked == [Dlg EXCEPT !.nb[selection].m_IsCurrentFormat = ~wasChecked]
           r == SelectDefaultNetlistTypeCode(clicked, currPage, parentFmt)
       IN  /\ SetDlg(r.d)
           /\ parentFmt' = r.parent
           /\ userChanged' = IF currPage # NULL THEN TRUE ELSE userChanged
           /\ lastCall' = Call("SelectDefaultNetlistType", "", "", wasChecked, currPage)
    /\ trace' = <<>>
    /\ UNCHANGED <<config, pc, curr_default_netformat, ret, saved, dialogs, fp>>

SelectDefaultNetlistType == SelectDefaultNetlistTypeWith(GetCurrentPage(Dlg))

\* the user edits the title field of the current (custom) page
EditTitle(t) ==
    /\ pc = "modal"
    /\ steps < MaxSteps
    /\ selection # NULL
    /\ m_NoteBook[selection].m_TitleStringCtrl # NULLCTRL
    /\ m_NoteBook[selection].m_TitleStringCtrl # t
    /\ m_NoteBook' = [m_NoteBook EXCEPT ![selection].m_TitleStringCtrl = t]
    /\ steps' = steps + 1
    /\ lastCall' = Call("EditTitle", t, "", FALSE, selection)
    /\ trace' = <<>>
    /\ UNCHANGED <<config, parentFmt, pc, selection, m_PanelNetType,
                   m_asFormatSelected, m_DefaultNetFmtName, delEnabled,
                   curr_default_netformat, ret, saved, userChanged, dialogs, fp>>

\* the user edits the command field of the current page
EditCommand(c) ==
    /\ pc = "modal"
    /\ steps < MaxSteps
    /\ selection # NULL
    /\ m_NoteBook[selection].m_CommandStringCtrl # NULLCTRL
    /\ m_NoteBook[selection].m_CommandStringCtrl # c
    /\ m_NoteBook' = [m_NoteBook EXCEPT ![selection].m_CommandStringCtrl = c]
    /\ steps' = steps + 1
    /\ lastCall' = Call("EditCommand", "", c, FALSE, selection)
    /\ trace' = <<>>
    /\ UNCHANGED <<config, parentFmt, pc, selection, m_PanelNetType,
                   m_asFormatSelected, m_DefaultNetFmtName, delEnabled,
                   curr_default_netformat, ret, saved, userChanged, dialogs, fp>>

\* OnAddGenerator: ok is whether the add-generator dialog returned wxID_OK
\* (its OnOKClick refuses an empty title or command), title and cmd its fields
OnAddGenerator(ok, title, cmd) ==
    /\ pc = "modal"
    /\ steps < MaxSteps
    /\ steps' = steps + 1
    /\ title # wxEmptyString
    /\ cmd # wxEmptyString
    /\ lastCall' = Call("OnAddGenerator", title, cmd, ok, NULL)
    /\ LET v == VerifyNotExists(Dlg, title, 0, PANELCUSTOMBASE)
       IN  IF ~ok
           THEN /\ trace' = <<>>
                /\ UNCHANGED <<config, parentFmt, pc, dlgVars, ret>>
           ELSE IF v.abort
           THEN /\ trace' = <<Ev("wxMessageBox", NET_TYPE_UNINIT,
                                 "This plugin already exists. Abort")>>
                /\ UNCHANGED <<config, parentFmt, pc, dlgVars, ret>>
           ELSE LET d2 == AddGeneratorPage(Dlg, title, cmd, v.netTypeId)
                IN  /\ SetDlg(d2)
                    /\ parentFmt' = NetlistUpdateOpt(d2)
                    /\ config' = WriteCurrentNetlistSetup(d2, config)
                    /\ pc' = "ended"
                    /\ ret' = "NET_PLUGIN_CHANGE"
                    /\ trace' = <<Ev("WriteCurrentNetlistSetup", NET_TYPE_UNINIT, ""),
                                  Ev("EndModal", NET_TYPE_UNINIT, "NET_PLUGIN_CHANGE")>>
    /\ UNCHANGED <<curr_default_netformat, saved, userChanged, dialogs, fp>>

\* OnDelGenerator: the button is enabled on custom pages only
OnDelGenerator ==
    /\ pc = "modal"
    /\ steps < MaxSteps
    /\ steps' = steps + 1
    /\ delEnabled
    /\ LET d2 == DelGeneratorPage(Dlg)
       IN  /\ SetDlg(d2)
           /\ parentFmt' = NetlistUpdateOpt(d2)
           /\ config' = WriteCurrentNetlistSetup(d2, config)
    /\ pc' = "ended"
    /\ ret' = "NET_PLUGIN_CHANGE"
    /\ lastCall' = Call("OnDelGenerator", "", "", FALSE, selection)
    /\ trace' = <<Ev("WriteCurrentNetlistSetup", NET_TYPE_UNINIT, ""),
                  Ev("EndModal", NET_TYPE_UNINIT, "NET_PLUGIN_CHANGE")>>
    /\ UNCHANGED <<curr_default_netformat, saved, userChanged, dialogs, fp>>

\* GenNetlist: accepted is whether the file dialog was not cancelled, fullpath
\* the path it returns, netlistAvailable whether CreateNetlist returns non-null
GenNetlist(accepted, fullpath, netlistAvailable) ==
    /\ pc = "modal"
    /\ steps < MaxSteps
    /\ steps' = steps + 1
    /\ selection # NULL
    /\ lastCall' = IF accepted
                   THEN Call("GenNetlist", fullpath, "", netlistAvailable, selection)
                   ELSE Call("GenNetlist", "", "", FALSE, NULL)
    /\ parentFmt' = NetlistUpdateOpt(Dlg)
    /\ IF ~accepted
       THEN /\ trace' = <<>>
            /\ UNCHANGED <<config, pc, ret>>
       ELSE /\ trace' = GenNetlistCalls(Dlg, fullpath, netlistAvailable)
            /\ config' = WriteCurrentNetlistSetup(Dlg, config)
            /\ pc' = "ended"
            /\ ret' = "wxID_OK"
    /\ UNCHANGED <<dlgVars, curr_default_netformat, saved, userChanged,
                   dialogs, fp>>

Next ==
    \/ InvokeDialogNetList
    \/ InvokeDialogNetListReturn
    \/ CloseDialog
    \/ \E p \in 1 .. Len(m_NoteBook) : OnPageChanged(p)
    \/ SelectDefaultNetlistType
    \/ \E t \in EditTitles : EditTitle(t)
    \/ \E c \in EditCommands : EditCommand(c)
    \/ \E ok \in BOOLEAN, t \in AddTitles, c \in AddCommands : OnAddGenerator(ok, t, c)
    \/ OnDelGenerator
    \/ \E a \in BOOLEAN, f \in Paths, n \in BOOLEAN : GenNetlist(a, f, n)

Spec == Init /\ [][Next]_vars


(* ------------------------------------------------------------------ *)
(* FilenamePrms on its own: every type id, null and non-null pointers   *)
(* ------------------------------------------------------------------ *)

\* the type ids FilenamePrms is called with: NET_TYPE_UNINIT up to one past
\* the last custom id
NetTypeIds == NET_TYPE_UNINIT .. (NET_TYPE_CUSTOM1 + CUSTOMPANEL_COUNTMAX)

\* what the caller's strings hold before the call
CallerStrings == {"", "before"}

InitFilenamePrms ==
    /\ config = EmptyConfig
    /\ parentFmt = wxEmptyString
    /\ pc = "idle"
    /\ m_DefaultNetFmtName = wxEmptyString
    /\ m_asFormatSelected = FALSE
    /\ m_NoteBook = <<>>
    /\ selection = NULL
    /\ m_PanelNetType = [ii \in PanelIndexes |-> NULL]
    /\ delEnabled = FALSE
    /\ curr_default_netformat = wxEmptyString
    /\ ret = ""
    /\ saved = FALSE
    /\ userChanged = FALSE
    /\ dialogs = 0
    /\ steps = 0
    /\ lastCall = NoCall
    /\ trace = <<>>
    /\ \E id \in NetTypeIds, e \in BOOLEAN, w \in BOOLEAN,
          x \in CallerStrings, y \in CallerStrings :
            fp = [called |-> FALSE, aNetTypeId |-> id, aExt |-> e, aWildCard |-> w,
                  ext |-> x, wildcard |-> y, extBefore |-> x, wildcardBefore |-> y,
                  ret |-> FALSE]

CallFilenamePrms ==
    /\ ~fp.called
    /\ LET r == FilenamePrms(fp.aNetTypeId, fp.aExt, fp.aWildCard, fp.ext, fp.wildcard)
       IN  fp' = [fp EXCEPT !.called = TRUE, !.ret = r.ret, !.ext = r.ext,
                            !.wildcard = r.wildcard]
    /\ UNCHANGED <<config, parentFmt, pc, dlgVars, curr_default_netformat, ret,
                   saved, userChanged, dialogs, steps, lastCall, trace>>

SpecFilenamePrms == InitFilenamePrms /\ [][CallFilenamePrms]_vars

(* ------------------------------------------------------------------ *)
(* SelectDefaultNetlistType with every result of GetCurrentPage():      *)
(* the current page, or NULL (wxNotebook returns NULL when it has no    *)
(* current page, and the handler tests for it)                          *)
(* ------------------------------------------------------------------ *)

SelectDefaultNetlistTypeAny ==
    \E currPage \in {NULL, GetCurrentPage(Dlg)} : SelectDefaultNetlistTypeWith(currPage)

NextSelect ==
    \/ InvokeDialogNetList
    \/ InvokeDialogNetListReturn
    \/ CloseDialog
    \/ \E p \in 1 .. Len(m_NoteBook) : OnPageChanged(p)
    \/ SelectDefaultNetlistTypeAny

SpecSelect == Init /\ [][NextSelect]_vars


(* ------------------------------------------------------------------ *)
(* Properties                                                           *)
(* ------------------------------------------------------------------ *)

Pages == 1 .. Len(m_NoteBook)

CustomSlots == PANELCUSTOMBASE .. (PANELCUSTOMBASE + CUSTOMPANEL_COUNTMAX - 1)

PluginSlots == 1 .. CUSTOMPANEL_COUNTMAX

\* the custom pages a dialog holds, in slot order
HeldCustomPages(panel) ==
    LET IsPage(p) == p # NULL
    IN  SelectSeq([n \in PluginSlots |-> panel[PANELCUSTOMBASE + n - 1]], IsPage)

\* the title/command pairs of the held custom pages whose title field is not
\* empty, in slot order
PluginsOf(nb, panel) ==
    LET HasTitle(p) == nb[p].m_TitleStringCtrl # wxEmptyString
        kept == SelectSeq(HeldCustomPages(panel), HasTitle)
    IN  [n \in 1 .. Len(kept) |-> [title   |-> nb[kept[n]].m_TitleStringCtrl,
                                   command |-> nb[kept[n]].m_CommandStringCtrl]]

\* the persisted slots 1..8
PersistedSlots(cfg) ==
    [n \in PluginSlots |-> [title   |-> cfg[<<CUSTOM_NETLIST_TITLE, n>>],
                            command |-> cfg[<<CUSTOM_NETLIST_COMMAND, n>>]]]

\* the persisted slots holding a title
PersistedPlugins(cfg) ==
    LET HasTitle(e) == e.title # wxEmptyString
    IN  SelectSeq(PersistedSlots(cfg), HasTitle)

EmptySlot == [title |-> wxEmptyString, command |-> wxEmptyString]

\* cfg holds exactly plugins, packed into slots 1..k, and nothing else
HoldsPacked(cfg, plugins) ==
    /\ DOMAIN cfg = ConfigKeys
    /\ \A n \in PluginSlots :
          PersistedSlots(cfg)[n] = IF n <= Len(plugins) THEN plugins[n] ELSE EmptySlot

Called(name) == \E i \in 1 .. Len(trace) : trace[i].call = name

JustConstructed == pc = "modal" /\ lastCall.op = "InvokeDialogNetList"

\* C1: after the NETLIST_DIALOG constructor, whatever format name was stored
\* and whatever plugins were persisted, a page is checked as the default format
\* and m_DefaultNetFmtName is the format name of such a page; when the stored
\* name is the name of no page, that page is Pcbnew.
C1_FormatSelectedAfterConstruction ==
    JustConstructed =>
        /\ \E p \in Pages : /\ m_NoteBook[p].m_IsCurrentFormat
                            /\ m_NoteBook[p].m_pageNetFmtName = m_DefaultNetFmtName
        /\ (\A p \in Pages : m_NoteBook[p].m_pageNetFmtName # lastCall.title)
              => /\ m_DefaultNetFmtName = "Pcbnew"
                 /\ m_PanelNetType[PANELPCBNEW] \in Pages
                 /\ m_NoteBook[m_PanelNetType[PANELPCBNEW]].m_pageNetFmtName = "Pcbnew"
                 /\ m_NoteBook[m_PanelNetType[PANELPCBNEW]].m_IsCurrentFormat

\* a dialog constructed with custom pages for a stored name that no page has
C1_Witness ==
    /\ JustConstructed
    /\ lastCall.title = "Unknown"
    /\ m_PanelNetType[PANELCUSTOMBASE] # NULL
    /\ m_DefaultNetFmtName = "Pcbnew"
    /\ m_NoteBook[m_PanelNetType[PANELPCBNEW]].m_IsCurrentFormat

\* an OnAddGenerator step that passed the add-generator dialog with a title no
\* custom page has
AddAccepted ==
    /\ pc = "modal"
    /\ lastCall'.op = "OnAddGenerator"
    /\ steps' = steps + 1
    /\ lastCall'.flag
    /\ \A ii \in CustomSlots :
          m_PanelNetType[ii] # NULL
             => m_NoteBook[m_PanelNetType[ii]].m_pageNetFmtName # lastCall'.title

\* what C2 asks of an accepted OnAddGenerator step
AddKeepsPlugins ==
    LET free == {ii \in CustomSlots : m_PanelNetType[ii] = NULL}
    IN  /\ free # {}
        /\ LET first == CHOOSE ii \in free : \A jj \in free : ii <= jj
           IN  /\ m_PanelNetType'[first] # NULL
               /\ m_NoteBook'[m_PanelNetType'[first]].m_pageNetFmtName = lastCall'.title
               /\ m_NoteBook'[m_PanelNetType'[first]].m_CommandStringCtrl = lastCall'.cmd
        /\ \A ii \in CustomSlots :
              m_PanelNetType[ii] # NULL
                 => /\ m_PanelNetType'[ii] = m_PanelNetType[ii]
                    /\ m_NoteBook'[m_PanelNetType[ii]] = m_NoteBook[m_PanelNetType[ii]]
                    /\ m_NoteBook[m_PanelNetType[ii]].m_TitleStringCtrl # wxEmptyString
                          => \E n \in PluginSlots :
                                PersistedSlots(config')[n] =
                                   [title   |-> m_NoteBook[m_PanelNetType[ii]].m_TitleStringCtrl,
                                    command |-> m_NoteBook[m_PanelNetType[ii]].m_CommandStringCtrl]

\* C2: with 0..8 custom plugins in the dialog, an accepted OnAddGenerator puts
\* the new page in the first unused custom slot, and every custom plugin that
\* was there stays in its slot and is persisted with its title and command.
C2_AddKeepsExistingPlugins == [][AddAccepted => AddKeepsPlugins]_vars

\* the same, for a dialog that holds fewer than CUSTOMPANEL_COUNTMAX plugins
C2_AddBelowTheMaximum ==
    [][(AddAccepted /\ \E ii \in CustomSlots : m_PanelNetType[ii] = NULL)
          => AddKeepsPlugins]_vars

\* C3: WriteCurrentNetlistSetup leaves in the persisted slots exactly the
\* title/command pairs of the custom pages with a non-empty title field, in
\* their order, packed into slots 1..k, and slots k+1..8 empty; the dialog
\* constructed next installs exactly the persisted plugins, as k custom pages
\* with those titles and commands.
C3_WriteThenInstallRoundTrip ==
    /\ (pc = "ended" /\ Called("WriteCurrentNetlistSetup"))
          => HoldsPacked(config, PluginsOf(m_NoteBook, m_PanelNetType))
    /\ JustConstructed
          => LET plugins == PersistedPlugins(config)
             IN  /\ Len(m_NoteBook) = PANELCUSTOMBASE + Len(plugins)
                 /\ \A n \in PluginSlots :
                       LET p == m_PanelNetType[PANELCUSTOMBASE + n - 1]
                       IN  IF n <= Len(plugins)
                           THEN /\ p \in Pages
                                /\ m_NoteBook[p].m_pageNetFmtName = plugins[n].title
                                /\ m_NoteBook[p].m_TitleStringCtrl = plugins[n].title
                                /\ m_NoteBook[p].m_CommandStringCtrl = plugins[n].command
                           ELSE p = NULL

\* a second dialog whose second custom page is P3: the first dialog wrote the
\* setup with P2's title empty and P3 moved down a slot
C3_Witness ==
    /\ JustConstructed
    /\ dialogs = 2
    /\ m_PanelNetType[PANELCUSTOMBASE + 1] # NULL
    /\ m_NoteBook[m_PanelNetType[PANELCUSTOMBASE]].m_pageNetFmtName = "P1"
    /\ m_NoteBook[m_PanelNetType[PANELCUSTOMBASE + 1]].m_pageNetFmtName = "P3"

\* C4: InvokeDialogNetList calls SaveProjectSettings only if the user changed
\* the default format in the dialog (SelectDefaultNetlistType ran).
C4_SavedOnlyIfUserChanged == (pc = "idle" /\ saved) => userChanged

\* C5: FilenamePrms returns true for the four known types, false for the
\* custom ones, gives the extension and wildcard of the type, and writes an
\* output only through a non-null pointer.
C5_FilenamePrms ==
    fp.called =>
        LET id == fp.aNetTypeId
            known == {NET_TYPE_PCBNEW, NET_TYPE_ORCADPCB2, NET_TYPE_CADSTAR, NET_TYPE_SPICE}
            e == IF id = NET_TYPE_SPICE THEN "cir"
                 ELSE IF id = NET_TYPE_CADSTAR THEN "frp"
                 ELSE IF id \in {NET_TYPE_PCBNEW, NET_TYPE_ORCADPCB2}
                      THEN "NetlistFileExtension" ELSE ""
            w == IF id = NET_TYPE_SPICE THEN "SpiceNetlistFileWildcard"
                 ELSE IF id = NET_TYPE_CADSTAR THEN "CadstarNetlistFileWildcard"
                 ELSE IF id \in {NET_TYPE_PCBNEW, NET_TYPE_ORCADPCB2}
                      THEN "NetlistFileWildcard" ELSE "AllFilesWildcard"
        IN  /\ id \in known => fp.ret
            /\ id >= NET_TYPE_CUSTOM1 => ~fp.ret
            /\ (id \in known \/ id >= NET_TYPE_CUSTOM1)
                  => /\ fp.ext = IF fp.aExt THEN e ELSE fp.extBefore
                     /\ fp.wildcard = IF fp.aWildCard THEN w ELSE fp.wildcardBefore

\* a call for CadStar with a null wildcard pointer
C5_Witness ==
    /\ fp.called
    /\ fp.aNetTypeId = NET_TYPE_CADSTAR
    /\ fp.aExt
    /\ ~fp.aWildCard
    /\ fp.ext = "frp"
    /\ fp.wildcardBefore = "before"
    /\ fp.wildcard = "before"

\* C6: OnAddGenerator with the title of an existing custom page aborts with no
\* effect: no page is added, m_PanelNetType and the persisted configuration
\* are as before, and the dialog is not closed.
C6_AddExistingAborts ==
    [][(/\ pc = "modal"
        /\ lastCall'.op = "OnAddGenerator"
        /\ steps' = steps + 1
        /\ lastCall'.flag
        /\ \E ii \in CustomSlots :
              /\ m_PanelNetType[ii] # NULL
              /\ m_NoteBook[m_PanelNetType[ii]].m_pageNetFmtName = lastCall'.title)
          => /\ m_NoteBook' = m_NoteBook
             /\ m_PanelNetType' = m_PanelNetType
             /\ config' = config
             /\ pc' = "modal"
             /\ ret' = ret
             /\ \A i \in 1 .. Len(trace') :
                   trace'[i].call \notin {"WriteCurrentNetlistSetup", "EndModal"}]_vars

\* an OnAddGenerator call that aborted on an existing title
C6_Witness ==
    /\ pc = "modal"
    /\ lastCall.op = "OnAddGenerator"
    /\ lastCall.flag
    /\ \E ii \in CustomSlots :
          /\ m_PanelNetType[ii] # NULL
          /\ m_NoteBook[m_PanelNetType[ii]].m_pageNetFmtName = lastCall.title
    /\ Called("wxMessageBox")

\* C7: after SelectDefaultNetlistType with a current page, that page is the
\* only one checked (also when the click unchecked it), and
\* m_DefaultNetFmtName and the parent's format name are its format name; with
\* no current page every checkbox is cleared and neither name changes.
C7_SelectDefault ==
    [][(lastCall'.op = "SelectDefaultNetlistType" /\ steps' = steps + 1)
          => IF lastCall'.page # NULL
             THEN /\ lastCall'.page = selection'
                  /\ \A p \in 1 .. Len(m_NoteBook') :
                        m_NoteBook'[p].m_IsCurrentFormat <=> (p = lastCall'.page)
                  /\ m_DefaultNetFmtName' = m_NoteBook'[lastCall'.page].m_pageNetFmtName
                  /\ parentFmt' = m_NoteBook'[lastCall'.page].m_pageNetFmtName
             ELSE /\ \A p \in 1 .. Len(m_NoteBook') : ~m_NoteBook'[p].m_IsCurrentFormat
                  /\ m_DefaultNetFmtName' = m_DefaultNetFmtName
                  /\ parentFmt' = parentFmt]_vars

\* the click unchecked the current page's checkbox and the handler checked it again
C7_Witness ==
    /\ lastCall.op = "SelectDefaultNetlistType"
    /\ lastCall.flag
    /\ lastCall.page # NULL
    /\ m_NoteBook[lastCall.page].m_IsCurrentFormat
    /\ m_NoteBook[lastCall.page].m_IdNetType >= NET_TYPE_CUSTOM1

\* the handler ran with no current page
C7_NoCurrentPageReached ==
    /\ lastCall.op = "SelectDefaultNetlistType"
    /\ lastCall.page = NULL
    /\ parentFmt = "Unknown"

\* C8: in GenNetlist, once the file dialog is accepted, WriteNetListFile is
\* called iff CreateNetlist returned a netlist, with the current page's type
\* and the chosen path; either way the plugin configuration is persisted
\* afterwards and the dialog ends with wxID_OK.
C8_GenNetlist ==
    (lastCall.op = "GenNetlist" /\ lastCall.page # NULL)
        => LET n == Len(trace)
           IN  /\ Called("WriteNetListFile") <=> lastCall.flag
               /\ \A i \in 1 .. n :
                     trace[i].call = "WriteNetListFile"
                        => /\ trace[i].type = m_NoteBook[lastCall.page].m_IdNetType
                           /\ trace[i].arg = lastCall.title
                           /\ i < n - 1
                           /\ \E j \in 1 .. (i - 1) : trace[j].call = "CreateNetlist"
               /\ n >= 2
               /\ trace[n - 1].call = "WriteCurrentNetlistSetup"
               /\ trace[n] = Ev("EndModal", NET_TYPE_UNINIT, "wxID_OK")
               /\ HoldsPacked(config, PluginsOf(m_NoteBook, m_PanelNetType))
               /\ pc = "ended"
               /\ ret = "wxID_OK"

\* GenNetlist on a custom page, file dialog accepted, no netlist available
C8_Witness ==
    /\ lastCall.op = "GenNetlist"
    /\ lastCall.page # NULL
    /\ ~lastCall.flag
    /\ m_NoteBook[lastCall.page].m_IdNetType >= NET_TYPE_CUSTOM1
    /\ ~Called("WriteNetListFile")
    /\ Called("WriteCurrentNetlistSetup")
    /\ ret = "wxID_OK"

=============================================================================
